---- MODULE Spec2Model ----
(***************************************************************************)
(* A model of preroll's test_utils module (src/src/test_utils/mod.rs):     *)
(* the in-process test harness built by create_client and                  *)
(* create_client_and_postgres, the PostgresTestMiddleware that shares one  *)
(* transaction between all requests of a test, and assert_json_error.      *)
(***************************************************************************)
EXTENDS Integers, Sequences, FiniteSets, TLC

(* ---------------------------------------------------------------- bounds *)
\* number of requests a test issues through the client
NumReq == 2

Req == 1..NumReq
\* the test function itself, as a holder of guards
TestActor == 0
\* objects on the heap: wrappers (Arc<RwLock<..>>) and transactions
WrapIds == 1..(NumReq + 1)
TxIds == 1..(NumReq + 1)
NoRef == 0

\* rows a test writes through the shared transaction
Rows == {"fixture", "handler_row"}
\* routes registered on the server: the built-in one and the user's
PingRoute == "/monitor/ping"
UserRoutes == {"/read", "/write"}

VARIABLES
    harness,        \* "none" | "plain" | "postgres" | "failed"
    middleware,     \* the server's middleware list, in registration order
    routes,         \* the server's registered routes
    heap,           \* WrapIds -> the Arc<RwLock<ConnectionWrapInner>> objects
    txs,            \* TxIds -> the transactions begun on the pool
    db,             \* rows committed to the database (seen by a fresh connection)
    writerPriority, \* the lock's (unspecified) policy: do waiting writers bar new readers
    conn_wrap,      \* the wrapper reference handed back to the test
    mwRef,          \* the wrapper reference held by PostgresTestMiddleware
    test,           \* the test function's position and observations
    req,            \* Req -> the requests issued through the client
    published,      \* rows written under exclusive guards that were since released
    aj              \* one call of assert_json_error: its inputs and outcome

vars == <<harness, middleware, routes, heap, txs, db, writerPriority,
          conn_wrap, mwRef, test, req, published, aj>>

harnessVars == <<harness, middleware, routes, heap, txs, db, writerPriority,
                 conn_wrap, mwRef, test, req, published>>

(* ------------------------------------------------------- heap operations *)
NoWrapper == [alloc |-> FALSE, inner |-> NoRef, readers |-> {}, writers |-> {}, strong |-> 0]
NoTx == [state |-> "none", rows |-> {}]

\* pg_pool.begin(): a new open transaction
FreshTx(t) == CHOOSE i \in TxIds : t[i].state = "none"
PoolBegin(t) == [t EXCEPT ![FreshTx(t)] = [state |-> "open", rows |-> {}]]

\* Drop of a sqlx Transaction that is still open: it is rolled back
DropTransaction_Commits(t, d, id) ==
    [txs |-> [t EXCEPT ![id] = [state |-> "committed", rows |-> {}]],
     db |-> d \cup t[id].rows]
DropTransaction(t, d, id) ==
    [txs |-> [t EXCEPT ![id] = [state |-> "rolledback", rows |-> {}]],
     db |-> d]

\* Arc::new(RwLock::new(ConnectionWrapInner::Transacting(tx)))
FreshWrap(h) == CHOOSE i \in WrapIds : ~h[i].alloc
ArcNew(h, tx) ==
    [h EXCEPT ![FreshWrap(h)] =
        [alloc |-> TRUE, inner |-> tx, readers |-> {}, writers |-> {}, strong |-> 1]]

\* Arc::clone: the same object, one more strong reference
ArcClone(h, ref) ==
    [heap |-> [h EXCEPT ![ref].strong = @ + 1], ref |-> ref]

\* Drop of one Arc reference; the last one drops the wrapper and with it the
\* transaction it holds
ArcDrop(h, t, d, ref) ==
    IF h[ref].strong > 1
    THEN [heap |-> [h EXCEPT ![ref].strong = @ - 1], txs |-> t, db |-> d]
    ELSE LET dropped == DropTransaction(t, d, h[ref].inner)
         IN [heap |-> [h EXCEPT ![ref] = NoWrapper],
             txs |-> dropped.txs, db |-> dropped.db]

(* ------------------------------------------------ the async_std RwLock *)
Unseen == {"(nothing read yet)"}

\* requests suspended in write().await on wrapper w
WaitingWriters(w) == {r \in Req : req[r].pc = "waitX" /\ req[r].ext = w}

\* read().await completes: no writer holds the lock (and, under a
\* write-preferring policy, none is waiting)
CanRead_IgnoresWriter(w) == heap[w].alloc
CanRead(w) ==
    /\ heap[w].alloc
    /\ heap[w].writers = {}
    /\ writerPriority => WaitingWriters(w) = {}

\* write().await completes: nobody holds the lock
CanWrite_IgnoresReaders(w) == heap[w].alloc /\ heap[w].writers = {}
CanWrite(w) ==
    /\ heap[w].alloc
    /\ heap[w].writers = {}
    /\ heap[w].readers = {}

LockShared(h, w, a) == [h EXCEPT ![w].readers = @ \cup {a}]
LockExclusive(h, w, a) == [h EXCEPT ![w].writers = @ \cup {a}]
Unlock(h, w, a) == [h EXCEPT ![w].readers = @ \ {a}, ![w].writers = @ \ {a}]

\* what a guard on wrapper w gives access to: the rows of its transaction
Visible(w) == txs[heap[w].inner].rows

(* ------------------------------------------------------------- the build *)
\* create_server: the fixed middleware chain and the built-in route, then
\* the caller's routes
ServerMiddleware_LogLast == <<"RequestId", "JsonError", "Log">>
ServerMiddleware == <<"RequestId", "Log", "JsonError">>

create_server(userRoutes) ==
    [middleware |-> ServerMiddleware, routes |-> {PingRoute} \cup userRoutes]

\* the route-setup functions a test passes in
RouteSetups == {UserRoutes}

NoResp == [status |-> 0, error |-> FALSE]

NewRequest == [pc |-> "new", route |-> "", idx |-> 0, ext |-> NoRef,
               attached |-> NoRef, trace |-> <<>>, resp |-> NoResp,
               nextResp |-> NoResp, base |-> {}, seen |-> Unseen]

NewTest == [pc |-> "start", seeded |-> FALSE, readDone |-> FALSE,
            base |-> {}, seen |-> Unseen,
            handleDropped |-> FALSE, clientDropped |-> FALSE]

\* create_client(state, setup_routes_fn)
create_client ==
    /\ harness = "none"
    /\ \E userRoutes \in RouteSetups :
          LET server == create_server(userRoutes)
          IN /\ middleware' = server.middleware
             /\ routes' = server.routes
    /\ harness' = "plain"
    /\ test' = [test EXCEPT !.pc = "cases", !.handleDropped = TRUE]
    /\ UNCHANGED <<heap, txs, db, writerPriority, conn_wrap, mwRef, req, published, aj>>

\* server.with(PostgresTestMiddleware(conn_wrap.clone()))
WithPostgresTest(mws) == Append(mws, "PostgresTest")

\* create_client_and_postgres(state, setup_routes_fn), the pool connected
\* and the transaction begun
create_client_and_postgres ==
    /\ harness = "none"
    /\ \E userRoutes \in RouteSetups :
          LET server == create_server(userRoutes)
          IN /\ middleware' = WithPostgresTest(server.middleware)
             /\ routes' = server.routes
    /\ LET begun == PoolBegin(txs)
           wrapped == ArcNew(heap, FreshTx(txs))
           cloned == ArcClone(wrapped, FreshWrap(heap))
       IN /\ txs' = begun
          /\ heap' = cloned.heap
          /\ mwRef' = cloned.ref
          /\ conn_wrap' = FreshWrap(heap)
    /\ harness' = "postgres"
    /\ test' = [test EXCEPT !.pc = "built"]
    /\ UNCHANGED <<db, writerPriority, req, published, aj>>

\* create_client_and_postgres returns the error of connect_with or begin
create_client_and_postgres_err ==
    /\ harness = "none"
    /\ \E userRoutes \in RouteSetups :
          LET server == create_server(userRoutes)
          IN /\ middleware' = server.middleware
             /\ routes' = server.routes
    /\ harness' = "failed"
    /\ test' = [test EXCEPT !.pc = "finished"]
    /\ UNCHANGED <<heap, txs, db, writerPriority, conn_wrap, mwRef, req, published, aj>>

(* ------------------------------------------------------ the test function *)
InFlight(r) == req[r].pc \notin {"new", "done"}

\* let mut pg_conn = pg_conn.write().await;
TestAcquireWrite ==
    /\ test.pc = "built"
    /\ CanWrite(conn_wrap)
    /\ heap' = LockExclusive(heap, conn_wrap, TestActor)
    /\ test' = [test EXCEPT !.pc = "setupHeld", !.base = published]
    /\ UNCHANGED <<harness, middleware, routes, txs, db, writerPriority,
                   conn_wrap, mwRef, req, published, aj>>

\* ... (test setup) ...: a fixture row written through the guard
TestSeed ==
    /\ test.pc = "setupHeld"
    /\ ~test.seeded
    /\ txs' = [txs EXCEPT ![heap[conn_wrap].inner].rows = @ \cup {"fixture"}]
    /\ test' = [test EXCEPT !.seeded = TRUE]
    /\ UNCHANGED <<harness, middleware, routes, heap, db, writerPriority,
                   conn_wrap, mwRef, req, published, aj>>

\* std::mem::drop(pg_conn) before the test cases
TestDropGuard ==
    /\ test.pc = "setupHeld"
    /\ test.seeded
    /\ heap' = Unlock(heap, conn_wrap, TestActor)
    /\ published' = published \cup {"fixture"}
    /\ test' = [test EXCEPT !.pc = "cases"]
    /\ UNCHANGED <<harness, middleware, routes, txs, db, writerPriority,
                   conn_wrap, mwRef, req, aj>>

\* the guard is still alive when the test cases start
TestKeepGuard ==
    /\ test.pc = "setupHeld"
    /\ test.seeded
    /\ test' = [test EXCEPT !.pc = "casesHeld"]
    /\ UNCHANGED <<harness, middleware, routes, heap, txs, db, writerPriority,
                   conn_wrap, mwRef, req, published, aj>>

\* pg_conn.read().await in the test cases
TestAcquireRead ==
    /\ test.pc = "cases"
    /\ harness = "postgres"
    /\ ~test.readDone
    /\ CanRead(conn_wrap)
    /\ heap' = LockShared(heap, conn_wrap, TestActor)
    /\ test' = [test EXCEPT !.pc = "holdRead", !.base = published]
    /\ UNCHANGED <<harness, middleware, routes, txs, db, writerPriority,
                   conn_wrap, mwRef, req, published, aj>>

TestReadRelease ==
    /\ test.pc = "holdRead"
    /\ heap' = Unlock(heap, conn_wrap, TestActor)
    /\ test' = [test EXCEPT !.pc = "cases", !.readDone = TRUE,
                            !.seen = Visible(conn_wrap)]
    /\ UNCHANGED <<harness, middleware, routes, txs, db, writerPriority,
                   conn_wrap, mwRef, req, published, aj>>

\* client.get(path) for a registered route; requests are issued in index order
IssueRequest(r, path) ==
    /\ test.pc \in {"cases", "casesHeld"}
    /\ req[r].pc = "new"
    /\ path \in routes
    /\ \A q \in Req : q < r => req[q].pc # "new"
    /\ req' = [req EXCEPT ![r].pc = "down", ![r].route = path, ![r].idx = 1]
    /\ UNCHANGED <<harness, middleware, routes, heap, txs, db, writerPriority,
                   conn_wrap, mwRef, test, published, aj>>

\* the test function returns once its requests have been answered; a guard
\* that is still alive goes out of scope
TestEnd ==
    /\ test.pc \in {"cases", "casesHeld"}
    /\ \A r \in Req : ~InFlight(r)
    /\ IF test.pc = "casesHeld"
       THEN /\ heap' = Unlock(heap, conn_wrap, TestActor)
            /\ published' = published \cup {"fixture"}
       ELSE UNCHANGED <<heap, published>>
    /\ test' = [test EXCEPT !.pc = "ending"]
    /\ UNCHANGED <<harness, middleware, routes, txs, db, writerPriority,
                   conn_wrap, mwRef, req, aj>>

Finished(t) == IF t.handleDropped /\ t.clientDropped THEN [t EXCEPT !.pc = "finished"] ELSE t

\* the wrapper handle returned to the test is dropped
TestDropHandle ==
    /\ test.pc = "ending"
    /\ ~test.handleDropped
    /\ LET d == ArcDrop(heap, txs, db, conn_wrap)
       IN /\ heap' = d.heap
          /\ txs' = d.txs
          /\ db' = d.db
    /\ conn_wrap' = NoRef
    /\ test' = Finished([test EXCEPT !.handleDropped = TRUE])
    /\ UNCHANGED <<harness, middleware, routes, writerPriority, mwRef, req, published, aj>>

\* the client is dropped, and with it the server and its middleware
TestDropClient ==
    /\ test.pc = "ending"
    /\ ~test.clientDropped
    /\ IF mwRef # NoRef
       THEN LET d == ArcDrop(heap, txs, db, mwRef)
            IN /\ heap' = d.heap
               /\ txs' = d.txs
               /\ db' = d.db
       ELSE UNCHANGED <<heap, txs, db>>
    /\ mwRef' = NoRef
    /\ test' = Finished([test EXCEPT !.clientDropped = TRUE])
    /\ UNCHANGED <<harness, middleware, routes, writerPriority, conn_wrap, req, published, aj>>

(* ------------------------------------------------- one request's journey *)
Reverse(seq) == [i \in 1..Len(seq) |-> seq[Len(seq) + 1 - i]]

\* the endpoint has produced its response: the request, and the wrapper
\* reference in its extensions, are dropped
Responded(rq, status, error) ==
    [rq EXCEPT !.pc = "up", !.idx = Len(middleware), !.ext = NoRef,
               !.resp = [status |-> status, error |-> error],
               !.nextResp = [status |-> status, error |-> error]]

\* the first position from i on that holds PostgresTestMiddleware, or the
\* position past the end of the list
RECURSIVE StopDown(_)
StopDown(i) ==
    IF i > Len(middleware) \/ middleware[i] = "PostgresTest" THEN i ELSE StopDown(i + 1)

\* the last position up to i that holds PostgresTestMiddleware, or 0
RECURSIVE StopUp(_)
StopUp(i) ==
    IF i < 1 \/ middleware[i] = "PostgresTest" THEN i ELSE StopUp(i - 1)

\* tide's Next::run: the next middleware of the list takes the request. The
\* middlewares of crate::middleware see nothing of the wrapper, so a run of
\* them is one step.
Next_run(r) ==
    /\ req[r].pc = "down"
    /\ req[r].idx <= Len(middleware)
    /\ middleware[req[r].idx] # "PostgresTest"
    /\ LET stop == StopDown(req[r].idx)
       IN req' = [req EXCEPT ![r].trace = @ \o SubSeq(middleware, req[r].idx, stop - 1),
                             ![r].idx = stop]
    /\ UNCHANGED <<harness, middleware, routes, heap, txs, db, writerPriority,
                   conn_wrap, mwRef, test, published, aj>>

\* PostgresTestMiddleware::handle up to next.run(req):
\* req.set_ext(self.0.clone())
PostgresTestMiddleware_handle_OwnTransaction(r) ==
    /\ req[r].pc = "down"
    /\ req[r].idx <= Len(middleware)
    /\ middleware[req[r].idx] = "PostgresTest"
    /\ txs' = PoolBegin(txs)
    /\ heap' = ArcNew(heap, FreshTx(txs))
    /\ req' = [req EXCEPT ![r].trace = Append(@, "PostgresTest"),
                          ![r].idx = @ + 1,
                          ![r].ext = FreshWrap(heap),
                          ![r].attached = FreshWrap(heap)]
    /\ UNCHANGED <<harness, middleware, routes, db, writerPriority,
                   conn_wrap, mwRef, test, published, aj>>
PostgresTestMiddleware_handle_TakesGuard(r) ==
    /\ req[r].pc = "down"
    /\ req[r].idx <= Len(middleware)
    /\ middleware[req[r].idx] = "PostgresTest"
    /\ CanRead(mwRef)
    /\ LET cloned == ArcClone(heap, mwRef)
       IN /\ heap' = cloned.heap
          /\ req' = [req EXCEPT ![r].trace = Append(@, "PostgresTest"),
                                ![r].idx = @ + 1,
                                ![r].ext = cloned.ref,
                                ![r].attached = cloned.ref]
    /\ UNCHANGED <<harness, middleware, routes, txs, db, writerPriority,
                   conn_wrap, mwRef, test, published, aj>>
PostgresTestMiddleware_handle(r) ==
    /\ req[r].pc = "down"
    /\ req[r].idx <= Len(middleware)
    /\ middleware[req[r].idx] = "PostgresTest"
    /\ LET cloned == ArcClone(heap, mwRef)
       IN /\ heap' = cloned.heap
          /\ req' = [req EXCEPT ![r].trace = Append(@, "PostgresTest"),
                                ![r].idx = @ + 1,
                                ![r].ext = cloned.ref,
                                ![r].attached = cloned.ref]
    /\ UNCHANGED <<harness, middleware, routes, txs, db, writerPriority,
                   conn_wrap, mwRef, test, published, aj>>

\* the chain is exhausted: the route's endpoint takes the request
Endpoint(r) ==
    /\ req[r].pc = "down"
    /\ req[r].idx > Len(middleware)
    /\ LET rq == [req[r] EXCEPT !.trace = Append(@, "Handler")]
           dropped == IF rq.ext = NoRef
                      THEN [heap |-> heap, txs |-> txs, db |-> db]
                      ELSE ArcDrop(heap, txs, db, rq.ext)
           kept == [heap |-> heap, txs |-> txs, db |-> db]
           after == CASE rq.route = PingRoute ->
                           [rq |-> Responded(rq, 200, FALSE), mem |-> dropped]
                      [] rq.route \in {"/read", "/write"} /\ rq.ext = NoRef ->
                           [rq |-> Responded(rq, 500, TRUE), mem |-> dropped]
                      [] rq.route = "/read" /\ rq.ext # NoRef ->
                           [rq |-> [rq EXCEPT !.pc = "waitS"], mem |-> kept]
                      [] rq.route = "/write" /\ rq.ext # NoRef ->
                           [rq |-> [rq EXCEPT !.pc = "waitX"], mem |-> kept]
       IN /\ req' = [req EXCEPT ![r] = after.rq]
          /\ heap' = after.mem.heap
          /\ txs' = after.mem.txs
          /\ db' = after.mem.db
    /\ UNCHANGED <<harness, middleware, routes, writerPriority,
                   conn_wrap, mwRef, test, published, aj>>

\* a handler's req.ext().read().await completes
HandlerAcquireShared(r) ==
    /\ req[r].pc = "waitS"
    /\ CanRead(req[r].ext)
    /\ heap' = LockShared(heap, req[r].ext, r)
    /\ req' = [req EXCEPT ![r].pc = "holdS", ![r].base = published]
    /\ UNCHANGED <<harness, middleware, routes, txs, db, writerPriority,
                   conn_wrap, mwRef, test, published, aj>>

\* a handler's req.ext().write().await completes
HandlerAcquireExclusive(r) ==
    /\ req[r].pc = "waitX"
    /\ CanWrite(req[r].ext)
    /\ heap' = LockExclusive(heap, req[r].ext, r)
    /\ req' = [req EXCEPT ![r].pc = "holdX", ![r].base = published]
    /\ UNCHANGED <<harness, middleware, routes, txs, db, writerPriority,
                   conn_wrap, mwRef, test, published, aj>>

\* the reading handler looks at the shared state, drops its guard, responds
HandlerReadRelease(r) ==
    /\ req[r].pc = "holdS"
    /\ LET rq == [req[r] EXCEPT !.seen = Visible(req[r].ext)]
           d == ArcDrop(Unlock(heap, rq.ext, r), txs, db, rq.ext)
       IN /\ req' = [req EXCEPT ![r] = Responded(rq, 200, FALSE)]
          /\ heap' = d.heap
          /\ txs' = d.txs
          /\ db' = d.db
    /\ UNCHANGED <<harness, middleware, routes, writerPriority,
                   conn_wrap, mwRef, test, published, aj>>

\* the writing handler inserts its row, drops its guard and responds; the
\* insert of a row that is already there is refused by the database and the
\* handler returns the error
HandlerWriteRelease(r) ==
    /\ req[r].pc = "holdX"
    /\ LET tx == heap[req[r].ext].inner
           conflict == "handler_row" \in txs[tx].rows
           written == [txs EXCEPT ![tx].rows = @ \cup {"handler_row"}]
           rq == [req[r] EXCEPT !.seen = written[tx].rows]
           d == ArcDrop(Unlock(heap, rq.ext, r), written, db, rq.ext)
       IN /\ req' = [req EXCEPT ![r] = IF conflict THEN Responded(rq, 500, TRUE)
                                                   ELSE Responded(rq, 200, FALSE)]
          /\ heap' = d.heap
          /\ txs' = d.txs
          /\ db' = d.db
    /\ published' = published \cup {"handler_row"}
    /\ UNCHANGED <<harness, middleware, routes, writerPriority,
                   conn_wrap, mwRef, test, aj>>

\* a middleware's next.run(req).await has returned and it passes the
\* response up, through the middlewares of crate::middleware in one step
Next_return(r) ==
    /\ req[r].pc = "up"
    /\ req[r].idx >= 1
    /\ middleware[req[r].idx] # "PostgresTest"
    /\ LET stop == StopUp(req[r].idx)
       IN req' = [req EXCEPT ![r].trace = @ \o Reverse(SubSeq(middleware, stop + 1, req[r].idx)),
                             ![r].idx = stop,
                             ![r].pc = IF stop = 0 THEN "done" ELSE "up"]
    /\ UNCHANGED <<harness, middleware, routes, heap, txs, db, writerPriority,
                   conn_wrap, mwRef, test, published, aj>>

\* PostgresTestMiddleware::handle: Ok(next.run(req).await)
PostgresTestMiddleware_result_HidesError(response) ==
    [ok |-> TRUE, response |-> [response EXCEPT !.error = FALSE]]
PostgresTestMiddleware_result(response) ==
    [ok |-> TRUE, response |-> response]

PostgresTestMiddleware_return(r) ==
    /\ req[r].pc = "up"
    /\ req[r].idx >= 1
    /\ middleware[req[r].idx] = "PostgresTest"
    /\ req' = [req EXCEPT ![r].trace = Append(@, "PostgresTest"),
                          ![r].idx = @ - 1,
                          ![r].pc = IF req[r].idx = 1 THEN "done" ELSE "up",
                          ![r].resp = PostgresTestMiddleware_result(@).response]
    /\ UNCHANGED <<harness, middleware, routes, heap, txs, db, writerPriority,
                   conn_wrap, mwRef, test, published, aj>>

RequestStep(r) ==
    \/ Next_run(r)
    \/ PostgresTestMiddleware_handle(r)
    \/ Endpoint(r)
    \/ HandlerAcquireShared(r)
    \/ HandlerAcquireExclusive(r)
    \/ HandlerReadRelease(r)
    \/ HandlerWriteRelease(r)
    \/ Next_return(r)
    \/ PostgresTestMiddleware_return(r)

(* ---------------------------------------------------- assert_json_error *)
\* the status codes of http_types::StatusCode used here, and a number that
\* is none
StatusCodes == {404, 500}
NotAStatus == 999
canonical_reason(code) ==
    CASE code = 404 -> "Not Found"
      [] code = 500 -> "Internal Server Error"
is_server_error(code) == code >= 500 /\ code < 600

Messages == {"(no additional context)", "row not found"}
RequestIds == {"req-1", "req-2"}
CorrelationIds == {"corr-1", "corr-2"}

\* JSON values of a body
JStr(x) == [t |-> "str", s |-> x]
JNum(x) == [t |-> "num", n |-> x]
JNull == [t |-> "null"]
JMissing == [t |-> "missing"]

EnvelopeBodies ==
    [title : {JStr(canonical_reason(c)) : c \in StatusCodes},
     message : {JStr(m) : m \in Messages},
     status : {JNum(c) : c \in StatusCodes},
     request_id : {JStr(i) : i \in RequestIds},
     correlation_id : {JMissing, JNull} \cup {JStr(i) : i \in CorrelationIds}]

SomeEnvelope == [title |-> JStr("Not Found"), message |-> JStr("row not found"),
                 status |-> JNum(404), request_id |-> JStr("req-1"),
                 correlation_id |-> JMissing]

\* JSON objects that are not of the envelope's shape
OtherObjects ==
    {[SomeEnvelope EXCEPT !.title = JMissing],
     [SomeEnvelope EXCEPT !.status = JStr("404")],
     [SomeEnvelope EXCEPT !.message = JNull],
     [SomeEnvelope EXCEPT !.request_id = JMissing],
     [SomeEnvelope EXCEPT !.correlation_id = JNum(7)]}

Bodies ==
    {[kind |-> "unreadable"], [kind |-> "text"]}
        \cup {[kind |-> "object", json |-> o] : o \in EnvelopeBodies \cup OtherObjects}

Responses ==
    [status : StatusCodes,
     request_id_header : {<<>>, <<"req-1">>, <<"req-2", "req-1">>},
     correlation_id_header : {<<>>, <<"corr-1">>},
     body : Bodies]

\* res.body_string(): the body as a string, or the error of reading it
body_string(body) == IF body.kind = "unreadable" THEN [ok |-> FALSE] ELSE [ok |-> TRUE, text |-> body]

\* serde_json::from_str::<JsonError>: title, message and request_id are
\* strings, status a number, correlation_id an optional string
ParseJsonError(text) ==
    IF /\ text.kind = "object"
       /\ text.json.title.t = "str"
       /\ text.json.message.t = "str"
       /\ text.json.status.t = "num"
       /\ text.json.request_id.t = "str"
       /\ text.json.correlation_id.t \in {"str", "null", "missing"}
    THEN [ok |-> TRUE,
          error |-> [title |-> text.json.title.s,
                     message |-> text.json.message.s,
                     status |-> text.json.status.n,
                     request_id |-> text.json.request_id.s,
                     correlation_id |-> IF text.json.correlation_id.t = "str"
                                        THEN <<text.json.correlation_id.s>>
                                        ELSE <<>>]]
    ELSE [ok |-> FALSE]

\* HeaderValues::last
last(values) == values[Len(values)]

Returned(call, result, failed, reports) ==
    [call EXCEPT !.pc = "returned", !.result = result, !.failed = failed,
                 !.reports = reports]

\* status.try_into().expect("test must specify valid status code")
ConvertStatus ==
    /\ aj.pc = "called"
    /\ aj' = IF aj.status \in StatusCodes
             THEN [aj EXCEPT !.pc = "converted"]
             ELSE Returned(aj, "panic", "test must specify valid status code", {})
    /\ UNCHANGED harnessVars

\* let str_response = res.body_string().await?;
ReadBody ==
    /\ aj.pc = "converted"
    /\ aj' = IF body_string(aj.res.body).ok
             THEN [aj EXCEPT !.pc = "read"]
             ELSE Returned(aj, "err", "body_string", {"read error"})
    /\ UNCHANGED harnessVars

\* serde_json::from_str(&str_response).map_err(..)?
ParseBody_StatusFirst ==
    /\ aj.pc = "read"
    /\ aj' = IF aj.res.status # aj.status
             THEN Returned(aj, "panic", "status", {"raw body"})
             ELSE IF ParseJsonError(body_string(aj.res.body).text).ok
             THEN [aj EXCEPT !.pc = "parsed"]
             ELSE [Returned(aj, "err", "parse", {"parse error", "raw body"})
                      EXCEPT !.errStatus = aj.res.status]
    /\ UNCHANGED harnessVars
ParseBody ==
    /\ aj.pc = "read"
    /\ aj' = IF ParseJsonError(body_string(aj.res.body).text).ok
             THEN [aj EXCEPT !.pc = "parsed"]
             ELSE [Returned(aj, "err", "parse", {"parse error", "raw body"})
                      EXCEPT !.errStatus = aj.res.status]
    /\ UNCHANGED harnessVars

\* the assertions of assert_json_error in their order: the name of the
\* first one that fails, or "" when all pass
FirstFailure_NoHeaderCheck(res, status, err_msg, error) ==
    CASE res.status # status -> "status"
      [] error.title # canonical_reason(status) -> "title"
      [] error.message # err_msg -> "message"
      [] error.status # status -> "status field"
      [] res.request_id_header = <<>> -> "X-Request-Id missing"
      [] error.request_id # last(res.request_id_header) -> "request_id"
      [] is_server_error(res.status) /\ error.correlation_id = <<>> ->
            "Internal server errors must have correlation ids."
      [] is_server_error(res.status) /\ res.correlation_id_header = <<>> ->
            "X-Correlation-Id missing"
      [] is_server_error(res.status)
            /\ error.correlation_id[1] # last(res.correlation_id_header) -> "correlation_id"
      [] ~is_server_error(res.status) /\ error.correlation_id # <<>> -> "correlation_id"
      [] OTHER -> ""
FirstFailure(res, status, err_msg, error) ==
    CASE res.status # status -> "status"
      [] error.title # canonical_reason(status) -> "title"
      [] error.message # err_msg -> "message"
      [] error.status # status -> "status field"
      [] res.request_id_header = <<>> -> "X-Request-Id missing"
      [] error.request_id # last(res.request_id_header) -> "request_id"
      [] is_server_error(res.status) /\ error.correlation_id = <<>> ->
            "Internal server errors must have correlation ids."
      [] is_server_error(res.status) /\ res.correlation_id_header = <<>> ->
            "X-Correlation-Id missing"
      [] is_server_error(res.status)
            /\ error.correlation_id[1] # last(res.correlation_id_header) -> "correlation_id"
      [] ~is_server_error(res.status) /\ error.correlation_id # <<>> -> "correlation_id"
      [] ~is_server_error(res.status) /\ res.correlation_id_header # <<>> ->
            "X-Correlation-Id present"
      [] OTHER -> ""

\* the assert_eq!/assert! lines and Ok(())
RunAssertions ==
    /\ aj.pc = "parsed"
    /\ LET error == ParseJsonError(body_string(aj.res.body).text).error
           failed == FirstFailure(aj.res, aj.status, aj.err_msg, error)
       IN aj' = IF failed = "" THEN Returned(aj, "ok", "", {})
                ELSE Returned(aj, "panic", failed, {})
    /\ UNCHANGED harnessVars

Calls ==
    [pc : {"called"}, res : Responses, status : StatusCodes \cup {NotAStatus},
     err_msg : Messages, result : {""}, failed : {""}, reports : {{}},
     errStatus : {0}]

(* ------------------------------------------------------- specification *)
NoCall == [pc |-> "none"]

Init ==
    /\ harness = "none"
    /\ middleware = <<>>
    /\ routes = {}
    /\ heap = [w \in WrapIds |-> NoWrapper]
    /\ txs = [t \in TxIds |-> NoTx]
    /\ db = {}
    /\ writerPriority \in BOOLEAN
    /\ conn_wrap = NoRef
    /\ mwRef = NoRef
    /\ test = NewTest
    /\ req = [r \in Req |-> NewRequest]
    /\ published = {}
    /\ aj = NoCall

Next ==
    \/ create_client
    \/ create_client_and_postgres
    \/ create_client_and_postgres_err
    \/ TestAcquireWrite
    \/ TestSeed
    \/ TestDropGuard
    \/ TestKeepGuard
    \/ TestAcquireRead
    \/ TestReadRelease
    \/ \E r \in Req : \E path \in {PingRoute} \cup UserRoutes : IssueRequest(r, path)
    \/ TestEnd
    \/ TestDropHandle
    \/ TestDropClient
    \/ \E r \in Req : RequestStep(r)

Spec == Init /\ [][Next]_vars

\* every request is a task the executor keeps polling while it can make
\* progress, and the test drops the read guard it took in the test cases
FairSpec ==
    /\ Spec
    /\ \A r \in Req : WF_vars(RequestStep(r))
    /\ WF_vars(TestReadRelease)

\* calls of assert_json_error on every response and expectation
AssertInit ==
    /\ harness = "none"
    /\ middleware = <<>>
    /\ routes = {}
    /\ heap = [w \in WrapIds |-> NoWrapper]
    /\ txs = [t \in TxIds |-> NoTx]
    /\ db = {}
    /\ writerPriority = FALSE
    /\ conn_wrap = NoRef
    /\ mwRef = NoRef
    /\ test = NewTest
    /\ req = [r \in Req |-> NewRequest]
    /\ published = {}
    /\ aj \in Calls

AssertNext ==
    \/ ConvertStatus
    \/ ReadBody
    \/ ParseBody
    \/ RunAssertions

AssertSpec == AssertInit /\ [][AssertNext]_vars

(* ------------------------------------------------------------ properties *)
Waiting(r) == req[r].pc \in {"waitS", "waitX"}
Holding(r) == req[r].pc \in {"holdS", "holdX"}

\* C1: while the test keeps the exclusive guard it took for setup, a handler
\* that waits for the wrapper (shared or exclusive) keeps waiting and the
\* guard stays held; when the setup guard was released before the requests
\* were issued, every handler that waits for the wrapper eventually holds it.
C1_AbandonedGuardBlocksForever ==
    /\ [][test.pc = "casesHeld" =>
            \A r \in Req : Waiting(r) =>
                /\ req'[r].pc = req[r].pc
                /\ test'.pc = "casesHeld"
                /\ TestActor \in heap'[conn_wrap].writers]_vars
    /\ \A r \in Req : (test.pc # "casesHeld" /\ Waiting(r)) ~> Holding(r)

C1_Witness ==
    /\ test.pc = "casesHeld"
    /\ \E r \in Req : req[r].pc = "waitS"
    /\ \E r \in Req : req[r].pc = "waitX"

\* C2: an exclusive guard never coexists with another guard on the same
\* wrapper, and a handler waiting for a shared guard can take it whenever no
\* writer holds or awaits the lock, whatever shared guards are held.
C2_ExclusiveGuardIsAlone ==
    /\ \A w \in WrapIds :
          heap[w].writers # {} =>
             /\ Cardinality(heap[w].writers) = 1
             /\ heap[w].readers = {}
    /\ \A r \in Req :
          (req[r].pc = "waitS" /\ heap[req[r].ext].writers = {}
                               /\ WaitingWriters(req[r].ext) = {})
             => ENABLED HandlerAcquireShared(r)
    /\ \A r \in Req :
          (req[r].pc = "waitX" /\ ENABLED HandlerAcquireExclusive(r))
             => heap[req[r].ext].readers = {} /\ heap[req[r].ext].writers = {}

C2_Witness ==
    \E w \in WrapIds : Cardinality(heap[w].readers) >= 2

C2_WitnessWriterWaits ==
    \E r \in Req : req[r].pc = "waitX" /\ heap[req[r].ext].readers # {}

\* C3: no transaction is ever committed and no row reaches the database; the
\* transaction is open exactly as long as a reference to the wrapper is
\* alive, and is rolled back once the last one is dropped.
C3_NeverCommitted ==
    /\ db = {}
    /\ \A t \in TxIds : txs[t].state # "committed"
    /\ \A w \in WrapIds :
          /\ heap[w].alloc => txs[heap[w].inner].state = "open"
          /\ heap[w].alloc <=>
                \/ conn_wrap = w
                \/ mwRef = w
                \/ \E r \in Req : req[r].ext = w
    /\ \A t \in TxIds :
          txs[t].state = "open" => \E w \in WrapIds : heap[w].alloc /\ heap[w].inner = t
    /\ test.pc = "finished" =>
          \A t \in TxIds : txs[t].state \in {"none", "rolledback"} /\ txs[t].rows = {}

C3_Witness ==
    /\ harness = "postgres"
    /\ test.pc = "finished"
    /\ published = Rows
    /\ \E t \in TxIds : txs[t].state = "rolledback"

\* C4: a guard acquired after an exclusive guard wrote rows and was released
\* sees those rows, for the test's guards and for every handler's.
C4_LaterGuardsSeeTheWrite ==
    /\ \A r \in Req : req[r].seen # Unseen => req[r].base \subseteq req[r].seen
    /\ test.seen # Unseen => test.base \subseteq test.seen

C4_Witness ==
    /\ test.seen # Unseen /\ "fixture" \in test.base
    /\ \E r \in Req : /\ req[r].route = "/read"
                      /\ req[r].seen # Unseen
                      /\ "fixture" \in req[r].base

\* C5: a harness has at most one transaction and one wrapper, exactly one
\* once built with postgres; a live wrapper keeps its handle, and a
\* transaction's rows change only while an exclusive guard is held on the
\* wrapper of that transaction.
BegunTxs == {t \in TxIds : txs[t].state # "none"}

C5_OneTransaction ==
    /\ [](/\ Cardinality(BegunTxs) <= 1
          /\ Cardinality({w \in WrapIds : heap[w].alloc}) <= 1
          /\ harness = "postgres" => Cardinality(BegunTxs) = 1
          /\ harness # "postgres" => BegunTxs = {})
    /\ [][/\ harness # "none" => txs' \in {txs} \cup
                 {[txs EXCEPT ![t].rows = rows] : t \in BegunTxs, rows \in SUBSET Rows}
                 \cup {[txs EXCEPT ![t] = [state |-> "rolledback", rows |-> {}]] : t \in BegunTxs}
          /\ \A w \in WrapIds :
                (heap[w].alloc /\ heap'[w].alloc) => heap'[w].inner = heap[w].inner
          /\ \A t \in TxIds :
                (txs'[t].state = "open" /\ txs'[t].rows # txs[t].rows) =>
                    \E w \in WrapIds : heap[w].inner = t /\ heap[w].writers # {}]_vars

C5_Witness ==
    /\ harness = "postgres"
    /\ \A r \in Req : req[r].pc = "done" /\ req[r].attached # NoRef
    /\ \E t \in TxIds : txs[t].state = "open" /\ txs[t].rows = Rows

\* C6: every request gets a reference to the one wrapper made at build; the
\* middleware's step only adds a strong reference, hands the request to the
\* next stage, and the response it returns is the one the next stage gave.
C6_MiddlewareAttachesSharedWrapper ==
    /\ [](/\ \A r \in Req : req[r].attached # NoRef =>
                /\ mwRef # NoRef => req[r].attached = mwRef
                /\ conn_wrap # NoRef => req[r].attached = conn_wrap
                /\ \A q \in Req : req[q].attached # NoRef => req[q].attached = req[r].attached
          /\ \A r \in Req : req[r].pc = "done" => req[r].resp = req[r].nextResp)
    /\ [][\A r \in Req : req'[r].attached # req[r].attached =>
             /\ req'[r].ext = mwRef
             /\ heap' = [heap EXCEPT ![mwRef].strong = @ + 1]
             /\ txs' = txs /\ db' = db
             /\ req'[r].pc = "down" /\ req'[r].idx = req[r].idx + 1]_vars
    /\ [][\A r \in Req :
             (req[r].pc = "up" /\ req[r].idx >= 1 /\ middleware[req[r].idx] = "PostgresTest"
                /\ req'[r] # req[r]) =>
                /\ req'[r].resp = req[r].resp
                /\ heap' = heap /\ txs' = txs /\ db' = db]_vars

C6_Witness ==
    /\ \A r \in Req : req[r].pc = "done" /\ req[r].attached # NoRef
    /\ \E r \in Req : req[r].resp.error
    /\ \E r \in Req : ~req[r].resp.error

\* C7: a request passes request-id, logging, error-formatting, then (postgres
\* build only) the transaction middleware, then the handler, and returns
\* through the same stages in reverse; the wrapper is attached before the
\* handler runs.
IsPrefix(a, b) == Len(a) <= Len(b) /\ \A i \in 1..Len(a) : a[i] = b[i]
StagesIn ==
    <<"RequestId", "Log", "JsonError">> \o
        (IF harness = "postgres" THEN <<"PostgresTest">> ELSE <<>>)
ExpectedTrace == StagesIn \o <<"Handler">> \o Reverse(StagesIn)
HandlerRan(r) == \E i \in 1..Len(req[r].trace) : req[r].trace[i] = "Handler"

C7_FixedStageOrder ==
    \A r \in Req :
        /\ IsPrefix(req[r].trace, ExpectedTrace)
        /\ req[r].pc = "done" => req[r].trace = ExpectedTrace
        /\ (HandlerRan(r) /\ harness = "postgres") => req[r].attached # NoRef
        /\ harness = "plain" => req[r].attached = NoRef

C7_Witness ==
    /\ harness = "postgres"
    /\ \E r \in Req : req[r].pc = "done" /\ req[r].resp.error
    /\ \E r \in Req : req[r].pc = "done" /\ ~req[r].resp.error

C7_WitnessPlain ==
    /\ harness = "plain"
    /\ \E r \in Req : req[r].pc = "done" /\ req[r].resp.error
    /\ \E r \in Req : req[r].pc = "done" /\ req[r].route = PingRoute

\* C10: a request that is not waiting for the wrapper can always take its
\* next step, whoever holds the lock; no stage before the handler changes
\* the lock; and a request whose handler takes no guard is answered.
TakesNoGuard(r) == req[r].route = PingRoute \/ harness = "plain"

C10_HarnessTakesNoLock ==
    /\ [](\A r \in Req : (InFlight(r) /\ ~Waiting(r)) => ENABLED RequestStep(r))
    /\ [][\A r \in Req : (req[r].pc = "down" /\ req'[r] # req[r]) =>
             \A w \in WrapIds : /\ heap'[w].readers = heap[w].readers
                                /\ heap'[w].writers = heap[w].writers]_vars
    /\ \A r \in Req : (InFlight(r) /\ TakesNoGuard(r)) ~> (req[r].pc = "done")

C10_Witness ==
    /\ test.pc = "casesHeld"
    /\ \E r \in Req : Waiting(r)
    /\ \E r \in Req : req[r].route = PingRoute /\ req[r].pc = "done"
                                               /\ req[r].attached # NoRef

(* ------------------------------------------- assert_json_error properties *)
Parses(body) == body_string(body).ok /\ ParseJsonError(body).ok
Envelope(body) == ParseJsonError(body).error

\* C8: for a body that parses as the envelope, the call passes exactly when
\* the response status is the expected one, title is its reason phrase,
\* message is the expected message, the status field is the numeric status,
\* request_id is the X-Request-Id header, and correlation_id equals the
\* X-Correlation-Id header for a status of 500 or above and is absent from
\* body and headers otherwise.
C8_PassesExactlyWhen ==
    (aj.pc = "returned" /\ Parses(aj.res.body)) =>
        (aj.result = "ok" <=>
            /\ aj.res.status = aj.status
            /\ Envelope(aj.res.body).title = canonical_reason(aj.status)
            /\ Envelope(aj.res.body).message = aj.err_msg
            /\ Envelope(aj.res.body).status = aj.res.status
            /\ aj.res.request_id_header # <<>>
            /\ Envelope(aj.res.body).request_id
                  = aj.res.request_id_header[Len(aj.res.request_id_header)]
            /\ IF aj.res.status >= 500
               THEN /\ Envelope(aj.res.body).correlation_id # <<>>
                    /\ aj.res.correlation_id_header # <<>>
                    /\ Envelope(aj.res.body).correlation_id[1]
                          = aj.res.correlation_id_header[Len(aj.res.correlation_id_header)]
               ELSE /\ Envelope(aj.res.body).correlation_id = <<>>
                    /\ aj.res.correlation_id_header = <<>>)

C8_Witness ==
    /\ aj.pc = "returned"
    /\ aj.result = "ok"
    /\ aj.res.status = 500
    /\ Len(aj.res.request_id_header) = 2

C8_WitnessFails ==
    /\ aj.pc = "returned"
    /\ Parses(aj.res.body)
    /\ aj.failed = "X-Correlation-Id present"

NotAnEnvelope(body) == ~Parses(body)

\* C9 as stated: whenever the body is not valid JSON of the envelope's shape,
\* the call fails and the failure carries the parse error and the raw body.
C9_AsStated ==
    (aj.pc = "returned" /\ NotAnEnvelope(aj.res.body)) =>
        /\ aj.result # "ok"
        /\ {"parse error", "raw body"} \subseteq aj.reports

\* C9 amended: the call never passes on such a body; when the expected status
\* is a valid status code and the body can be read as a string, the call
\* returns an error carrying the parse error, the raw body and the response's
\* status, whatever that status is.
C9_ParseFailureIsReported ==
    (aj.pc = "returned" /\ NotAnEnvelope(aj.res.body)) =>
        /\ aj.result # "ok"
        /\ (aj.status \in StatusCodes /\ aj.res.body.kind # "unreadable") =>
              /\ aj.result = "err"
              /\ aj.reports = {"parse error", "raw body"}
              /\ aj.errStatus = aj.res.status

C9_Witness ==
    /\ aj.pc = "returned"
    /\ aj.res.body.kind = "object"
    /\ NotAnEnvelope(aj.res.body)
    /\ aj.res.status # aj.status
    /\ aj.result = "err"

====
